---- MODULE Spec2Model ----
(***************************************************************************)
(* Model of the merge engine of bdms: the date-range algebra of            *)
(* bdms/utils.py (split_date_range, check_date_range, intersect_dates),    *)
(* the job builder and the worker pool of bdms/merge.py (merge_database)   *)
(* and the streaming concatenation (concatenate_dfs_on_disk).              *)
(*                                                                         *)
(* A date is a tuple <<year, month, day>> (datetime.date).                 *)
(***************************************************************************)
EXTENDS Integers, Sequences, FiniteSets, TLC

VARIABLES
    pc,               \* position of the modelled call
    start_date,       \* argument start_date
    end_date,         \* argument end_date
    split_result,     \* value returned by split_date_range
    legacy_result,    \* value returned by split_date_range_legacy
    monthly_dates,    \* argument monthly_dates of intersect_dates
    daily_dates,      \* argument daily_dates of intersect_dates
    continuous_dates, \* value returned by intersect_dates
    dates_arg,        \* argument dates of check_date_range
    mode_arg,         \* argument mode of check_date_range
    origin,           \* where dates comes from, what was removed from it
    check_result,     \* value returned by check_date_range
    name_args,        \* arguments of get_file_basename, storage format
    filename,         \* a file name, as a sequence of characters
    extracted,        \* value returned by extract_dates_from_filenames
    populate_args,    \* populate_database: the arguments of the call
    start_date_provided, \* populate_database: start_date_provided
    populated,        \* populate_database: the dates of each combination
    fs,               \* the segment directories: key -> listings (os.listdir)
    combinations,     \* merge_database: the keys to iterate over
    check_continuous, \* merge_database: argument check_continuous
    idx,              \* merge_database: position of the loop over the keys
    jobs,             \* merge_database: the list jobs
    warnings,         \* the warnings emitted so far (warnings.warn)
    dirs_made,        \* the directories created by os.makedirs
    keylog,           \* the local variables of each finished iteration
    content,          \* the source segment files of the jobs, as on disk
    dest,             \* the destination files, as on disk
    n_jobs,           \* merge_database: size of the worker pool
    pbar,             \* the progress bar: [total, n]
    tasks             \* the pool's tasks, one per job, in submission order

splitVars == <<split_result, legacy_result>>
isectVars == <<monthly_dates, daily_dates, continuous_dates>>
checkVars == <<dates_arg, mode_arg, origin, check_result>>
nameVars == <<name_args, filename, extracted>>
popVars == <<populate_args, start_date_provided, populated>>
buildVars == <<fs, combinations, check_continuous, idx, jobs, warnings,
               dirs_made, keylog>>

execVars == <<content, dest, n_jobs, pbar, tasks>>

vars == <<pc, start_date, end_date, splitVars, isectVars, checkVars,
          nameVars, popVars,
          buildVars, execVars>>

\* the outcome of a call: not made yet, returned a value, raised ValueError
NotCalled == [st |-> "none"]
Raised == [st |-> "ValueError"]
Returned(v) == [st |-> "returned", val |-> v]

\* the variables of the calls a specification does not make
SplitIdle == split_result = NotCalled /\ legacy_result = NotCalled

IsectIdle ==
    /\ monthly_dates = <<>>
    /\ daily_dates = <<>>
    /\ continuous_dates = NotCalled

CheckIdle ==
    /\ dates_arg = <<>>
    /\ mode_arg = "monthly"
    /\ origin = [from |-> "none", removed |-> 0, len |-> 0]
    /\ check_result = NotCalled

NameIdle ==
    /\ name_args = <<>>
    /\ filename = <<>>
    /\ extracted = NotCalled

PopIdle ==
    /\ populate_args = <<>>
    /\ start_date_provided = FALSE
    /\ populated = <<>>

\* the logical keys: one time series each (merge.py:158, 168)
Symbols == {"BTCUSDT", "ETHUSDT"}

KeyOf(sym, trading_type, market_data_type, interval) ==
    [symbol |-> sym, trading_type |-> trading_type,
     market_data_type |-> market_data_type, interval |-> interval]

Key(sym) == KeyOf(sym, "spot", "trades", "None")

\* the keys that have directories in the database
KeySet ==
    {Key(sym) : sym \in Symbols}
    \cup {KeyOf("BTCUSDT", "spot", "klines", "1d"),
          KeyOf("BTCUSDT", "spot", "klines", "1w")}

EmptyDirs == [monthly |-> <<>>, daily |-> <<>>]

BuildIdle ==
    /\ fs = [k \in KeySet |-> EmptyDirs]
    /\ combinations = <<>>
    /\ check_continuous = FALSE
    /\ idx = 0
    /\ jobs = <<>>
    /\ warnings = <<>>
    /\ dirs_made = {}
    /\ keylog = <<>>

\* a path that holds no file
\* (touched: the path has been opened or removed by the modelled call)
Absent ==
    [exists |-> FALSE, closed |-> FALSE, written |-> <<>>, stale |-> FALSE,
     touched |-> FALSE]

ExecIdle ==
    /\ content = <<>>
    /\ dest = <<>>
    /\ n_jobs = 0
    /\ pbar = [total |-> 0, n |-> 0]
    /\ tasks = <<>>

\* ------------------------------------------------------------------------
\* datetime.date
\* ------------------------------------------------------------------------
Year(d) == d[1]
Month(d) == d[2]
Day(d) == d[3]

IsLeap(y) == (y % 4 = 0) /\ ((y % 100 # 0) \/ (y % 400 = 0))

DaysInMonth(y, m) ==
    IF m = 2 THEN (IF IsLeap(y) THEN 29 ELSE 28)
    ELSE IF m \in {4, 6, 9, 11} THEN 30 ELSE 31

RECURSIVE DaysBeforeMonth(_, _)
DaysBeforeMonth(y, m) ==
    IF m = 1 THEN 0 ELSE DaysBeforeMonth(y, m - 1) + DaysInMonth(y, m - 1)

\* date.toordinal(): days since 0001-01-01, that day being 1
ToOrdinal(d) ==
    LET y1 == Year(d) - 1
    IN  365 * y1 + (y1 \div 4) - (y1 \div 100) + (y1 \div 400)
        + DaysBeforeMonth(Year(d), Month(d)) + Day(d)

\* (d2 - d1).days
DaysBetween(d1, d2) == ToOrdinal(d2) - ToOrdinal(d1)

\* d1 < d2 on dates
DateLT(d1, d2) ==
    \/ Year(d1) < Year(d2)
    \/ Year(d1) = Year(d2) /\ Month(d1) < Month(d2)
    \/ Year(d1) = Year(d2) /\ Month(d1) = Month(d2) /\ Day(d1) < Day(d2)

DateLE(d1, d2) == d1 = d2 \/ DateLT(d1, d2)

\* d + timedelta(days=1)
NextDay(d) ==
    IF Day(d) < DaysInMonth(Year(d), Month(d))
    THEN <<Year(d), Month(d), Day(d) + 1>>
    ELSE IF Month(d) < 12 THEN <<Year(d), Month(d) + 1, 1>>
    ELSE <<Year(d) + 1, 1, 1>>

\* d + timedelta(days=n)
RECURSIVE AddDays(_, _)
AddDays(d, n) ==
    IF n = 0 \/ Day(d) < 1 THEN d ELSE AddDays(NextDay(d), n - 1)

\* d.replace(day=1)
ReplaceDay1(d) == <<Year(d), Month(d), 1>>

\* d.strftime("%Y-%m")
YearMonth(d) == <<Year(d), Month(d)>>

\* ------------------------------------------------------------------------
\* bdms/utils.py: the date-range generators
\* ------------------------------------------------------------------------

\* the while loop of generate_daily_date_range
RECURSIVE DailyLoop(_, _, _)
DailyLoop(dates, current_date, stop) ==
    IF DateLT(current_date, stop)
    THEN DailyLoop(Append(dates, current_date), NextDay(current_date), stop)
    ELSE [dates |-> dates, current_date |-> current_date]

\* generate_daily_date_range for start <= end, on parsed dates (the
\* ValueError for start > end is raised where the function is called)
generate_daily_date_range(start, end, include_end_date) ==
    LET r == DailyLoop(<<>>, start, end)
    IN  IF include_end_date THEN Append(r.dates, r.current_date)
        ELSE r.dates

\* the while loop of generate_monthly_date_range
RECURSIVE MonthlyLoop(_, _, _)
MonthlyLoop(dates, current_date, stop) ==
    IF DateLT(current_date, stop)
    THEN MonthlyLoop(Append(dates, current_date),
                     ReplaceDay1(AddDays(current_date, 32)), stop)
    ELSE [dates |-> dates, current_date |-> current_date]

\* generate_monthly_date_range for start <= end, on parsed dates (the
\* ValueError for start > end is raised where the function is called)
generate_monthly_date_range(start, end, include_end_date) ==
    LET r == MonthlyLoop(<<>>, ReplaceDay1(start), ReplaceDay1(end))
    IN  IF include_end_date THEN Append(r.dates, r.current_date)
        ELSE r.dates

\* list.pop() of the last element
Pop(s) == SubSeq(s, 1, Len(s) - 1)

\* split_date_range without the pop of the end month
split_date_range_keep_last(start, end) ==
    IF DateLT(end, start) THEN Raised
    ELSE LET monthly == generate_monthly_date_range(start, end, TRUE)
             restart == monthly[Len(monthly)]
         IN  Returned([monthly |-> monthly,
                       daily |-> generate_daily_date_range(
                                     restart, end, FALSE)])

\* split_date_range: the monthly list with the end month included, the
\* daily list restarted from the last monthly date, the last month popped;
\* both generators raise ValueError when start > end
split_date_range(start, end) ==
    IF DateLT(end, start) THEN Raised
    ELSE LET monthly == generate_monthly_date_range(start, end, TRUE)
             restart == monthly[Len(monthly)]
         IN  IF DateLT(end, restart) THEN Raised
             ELSE Returned([monthly |-> Pop(monthly),
                            daily |-> generate_daily_date_range(
                                          restart, end, FALSE)])

\* test/migration_test.py: split_date_range_legacy
split_date_range_legacy(start, end) ==
    IF DateLT(end, start) THEN Raised
    ELSE LET r == MonthlyLoop(<<>>, ReplaceDay1(start), ReplaceDay1(end))
             current_date == IF r.dates = <<>> THEN start ELSE r.current_date
         IN  Returned([monthly |-> r.dates,
                       daily |-> DailyLoop(<<>>, current_date, end).dates])

\* ------------------------------------------------------------------------
\* bdms/utils.py: check_date_range and intersect_dates
\* ------------------------------------------------------------------------

NoViolation == [kind |-> "None"]
Violation(kind, d1, d2) == [kind |-> kind, d1 |-> d1, d2 |-> d2]

\* the body of the loop with a monthly gap of up to 62 days let through
CheckPair_Wide(d1, d2, mode) ==
    IF mode = "monthly"
    THEN IF Day(d2) # 1 \/ Day(d1) # 1
         THEN Violation("not first of the month", d1, d2)
         ELSE IF DaysBetween(d1, d2) > 62
         THEN Violation("more than 31 days after", d1, d2)
         ELSE IF DaysBetween(d1, d2) < 28
         THEN Violation("less than 28 days after", d1, d2)
         ELSE NoViolation
    ELSE IF DaysBetween(d1, d2) # 1
         THEN Violation("not the day after", d1, d2)
         ELSE NoViolation

\* the body of the loop of check_date_range for the pair (d1, d2)
CheckPair(d1, d2, mode) ==
    IF mode = "monthly"
    THEN IF Day(d2) # 1 \/ Day(d1) # 1
         THEN Violation("not first of the month", d1, d2)
         ELSE IF DaysBetween(d1, d2) > 31
         THEN Violation("more than 31 days after", d1, d2)
         ELSE IF DaysBetween(d1, d2) < 28
         THEN Violation("less than 28 days after", d1, d2)
         ELSE NoViolation
    ELSE IF DaysBetween(d1, d2) # 1
         THEN Violation("not the day after", d1, d2)
         ELSE NoViolation

\* check_date_range scanning from the pair (dates[i], dates[i+1])
RECURSIVE CheckFrom(_, _, _)
CheckFrom(dates, i, mode) ==
    IF i >= Len(dates) THEN NoViolation
    ELSE LET v == CheckPair(dates[i], dates[i + 1], mode)
         IN  IF v # NoViolation THEN v ELSE CheckFrom(dates, i + 1, mode)

\* check_date_range with the scan started at the second pair
check_date_range_skip_first(dates, mode) == CheckFrom(dates, 2, mode)

check_date_range(dates, mode) == CheckFrom(dates, 1, mode)

\* [x for x in s if x in keep], keep a set
Filter(s, keep) == LET Test(x) == x \in keep IN SelectSeq(s, Test)

Range(s) == {s[i] : i \in 1..Len(s)}

\* intersect_dates without the filter on the months of the monthly dates
intersect_dates_keep_months(monthly, daily) ==
    LET _daily_dates ==
            IF Len(monthly) # 0
            THEN Filter(daily, {d \in Range(daily) : DateLE(monthly[1], d)})
            ELSE daily
    IN  [monthly |-> monthly,
         daily |-> _daily_dates,
         warned |-> Len(_daily_dates) # Len(daily)]

\* intersect_dates; warned tells whether the warning about daily data
\* before the first monthly date was emitted
intersect_dates(monthly, daily) ==
    LET monthly_months == {YearMonth(monthly[i]) : i \in 1..Len(monthly)}
        _daily_dates ==
            IF Len(monthly) # 0
            THEN Filter(daily, {d \in Range(daily) : DateLE(monthly[1], d)})
            ELSE daily
        filtered_daily_dates ==
            Filter(_daily_dates,
                   {d \in Range(_daily_dates) :
                        YearMonth(d) \notin monthly_months})
    IN  [monthly |-> monthly,
         daily |-> filtered_daily_dates,
         warned |-> Len(_daily_dates) # Len(daily)]

\* ------------------------------------------------------------------------
\* Specification SpecSplit: split_date_range and its legacy variant applied
\* to every pair of dates of a window
\* ------------------------------------------------------------------------
WindowStart == <<2023, 12, 20>>
MaxSpan == 75

IsDate(d) == Day(d) <= DaysInMonth(Year(d), Month(d))

SplitDates ==
    {d \in (2023..2024) \X (1..12) \X (1..31) :
        /\ IsDate(d)
        /\ DaysBetween(WindowStart, d) \in 0..MaxSpan}

InitSplit ==
    /\ pc = "split"
    /\ start_date \in SplitDates
    /\ end_date \in SplitDates
    /\ split_result = NotCalled
    /\ legacy_result = NotCalled
    /\ IsectIdle
    /\ CheckIdle
    /\ NameIdle
    /\ PopIdle
    /\ BuildIdle
    /\ ExecIdle

CallSplit ==
    /\ pc = "split"
    /\ split_result = NotCalled
    /\ split_result' = split_date_range(start_date, end_date)
    /\ UNCHANGED <<pc, start_date, end_date, legacy_result, isectVars,
                   checkVars, nameVars, popVars, buildVars,
                   execVars>>

CallLegacy ==
    /\ pc = "split"
    /\ legacy_result = NotCalled
    /\ legacy_result' = split_date_range_legacy(start_date, end_date)
    /\ UNCHANGED <<pc, start_date, end_date, split_result, isectVars,
                   checkVars, nameVars, popVars, buildVars,
                   execVars>>

NextSplit == CallSplit \/ CallLegacy

SpecSplit == InitSplit /\ [][NextSplit]_vars

\* the first day of the calendar month after the month of d
FirstOfNextMonth(d) ==
    IF Month(d) < 12 THEN <<Year(d), Month(d) + 1, 1>>
    ELSE <<Year(d) + 1, 1, 1>>

\* every date of the half-open interval [from, to), ascending
DateRange(from, to) == DailyLoop(<<>>, from, to).dates

RECURSIVE Flatten(_)
Flatten(ss) == IF ss = <<>> THEN <<>> ELSE Head(ss) \o Flatten(Tail(ss))

\* the dates covered by a split: each monthly unit covers its calendar
\* month, each daily unit its day, in the order of the two lists
Coverage(r) ==
    Flatten([i \in 1..Len(r.monthly) |->
                DateRange(ReplaceDay1(r.monthly[i]),
                          FirstOfNextMonth(r.monthly[i]))])
    \o r.daily

Occurrences(s, x) == Cardinality({i \in 1..Len(s) : s[i] = x})

C2_SameAsLegacy ==
    (split_result.st = "returned" /\ legacy_result.st = "returned") =>
        split_result.val = legacy_result.val


\* ------------------------------------------------------------------------
\* Specification SpecIntersect: intersect_dates applied to every pair of
\* short date lists, in any order and with repetitions
\* ------------------------------------------------------------------------
MaxMonthlyLen == 2
MaxDailyLen == 3

IntersectDates ==
    {<<2023, 12, 31>>, <<2024, 1, 1>>, <<2024, 2, 1>>, <<2024, 2, 15>>,
     <<2024, 3, 1>>, <<2024, 3, 2>>}

\* the sequences over S of length at most n
SeqsUpTo(S, n) == UNION {[1..k -> S] : k \in 0..n}

InitIntersect ==
    /\ pc = "intersect"
    /\ start_date = <<1970, 1, 1>>
    /\ end_date = <<1970, 1, 1>>
    /\ SplitIdle
    /\ monthly_dates \in SeqsUpTo(IntersectDates, MaxMonthlyLen)
    /\ daily_dates \in SeqsUpTo(IntersectDates, MaxDailyLen)
    /\ continuous_dates = NotCalled
    /\ CheckIdle
    /\ NameIdle
    /\ PopIdle
    /\ BuildIdle
    /\ ExecIdle

CallIntersect ==
    /\ pc = "intersect"
    /\ continuous_dates = NotCalled
    /\ continuous_dates' =
           Returned(intersect_dates(monthly_dates, daily_dates))
    /\ UNCHANGED <<pc, start_date, end_date, splitVars, checkVars,
                   nameVars, popVars,
                   monthly_dates, daily_dates, buildVars, execVars>>

NextIntersect == CallIntersect

SpecIntersect == InitIntersect /\ [][NextIntersect]_vars

\* C9: intersect_dates never returns a daily date whose (year, month) is
\* the (year, month) of one of the monthly dates
C9_NoDailyInMonthlyMonth ==
    continuous_dates.st = "returned" =>
        \A i \in 1..Len(continuous_dates.val.daily) :
            \A j \in 1..Len(monthly_dates) :
                YearMonth(continuous_dates.val.daily[i])
                    # YearMonth(monthly_dates[j])

\* the example of the specification: 2024-02-15 dropped, March kept
C9_Witness ==
    /\ continuous_dates.st = "returned"
    /\ monthly_dates = <<<<2024, 1, 1>>, <<2024, 2, 1>>>>
    /\ daily_dates = <<<<2024, 2, 15>>, <<2024, 3, 1>>, <<2024, 3, 2>>>>
    /\ continuous_dates.val.daily = <<<<2024, 3, 1>>, <<2024, 3, 2>>>>

\* C25: whatever the order of its input lists, intersect_dates returns a
\* monthly list and a daily list that are each in ascending order of date
Sorted(dates) ==
    \A i \in 1..(Len(dates) - 1) : DateLE(dates[i], dates[i + 1])

C25_ResultsSorted ==
    continuous_dates.st = "returned" =>
        /\ Sorted(continuous_dates.val.monthly)
        /\ Sorted(continuous_dates.val.daily)

\* ------------------------------------------------------------------------
\* Specification SpecCheck: check_date_range is called on a list made by a
\* date-range generator or by split_date_range, possibly with one element
\* removed, or on a list of the caller's own
\* ------------------------------------------------------------------------
MaxCheckSpan == 62
MaxCheckLen == 3

CheckStarts ==
    {<<2023, 12, 31>>, <<2024, 1, 1>>, <<2024, 1, 31>>, <<2024, 2, 1>>}

CheckDates ==
    {<<2024, 1, 1>>, <<2024, 1, 15>>, <<2024, 1, 16>>, <<2024, 2, 1>>,
     <<2024, 2, 15>>, <<2024, 3, 1>>}

Modes == {"daily", "monthly"}

\* a mode that the assertion of check_date_range rejects
OtherModes == {"weekly"}

InitCheck ==
    /\ pc = "check"
    /\ start_date = <<1970, 1, 1>>
    /\ end_date = <<1970, 1, 1>>
    /\ SplitIdle
    /\ IsectIdle
    /\ CheckIdle
    /\ NameIdle
    /\ PopIdle
    /\ BuildIdle
    /\ ExecIdle

checkFrame == <<pc, splitVars, isectVars, nameVars, popVars, buildVars,
               execVars>>

\* the list dates becomes the argument of the coming call
Generated(start, end, list, m) ==
    /\ start_date' = start
    /\ end_date' = end
    /\ dates_arg' = list
    /\ mode_arg' = m
    /\ origin' = [from |-> "generator", removed |-> 0, len |-> Len(list)]
    /\ UNCHANGED <<check_result, checkFrame>>

\* dates = generate_daily_date_range(start, end, include_end_date)
GenerateDaily ==
    /\ pc = "check"
    /\ origin.from = "none"
    /\ \E start \in CheckStarts, n \in 0..MaxCheckSpan, inc \in BOOLEAN :
          LET end == AddDays(start, n)
          IN  Generated(start, end,
                        generate_daily_date_range(start, end, inc), "daily")

\* dates = generate_monthly_date_range(start, end, include_end_date)
GenerateMonthly ==
    /\ pc = "check"
    /\ origin.from = "none"
    /\ \E start \in CheckStarts, n \in 0..MaxCheckSpan, inc \in BOOLEAN :
          LET end == AddDays(start, n)
          IN  Generated(start, end,
                        generate_monthly_date_range(start, end, inc),
                        "monthly")

\* dates = one of the two lists of split_date_range(start, end)
SplitRange ==
    /\ pc = "check"
    /\ origin.from = "none"
    /\ \E start \in CheckStarts, n \in 0..MaxCheckSpan, m \in Modes :
          LET end == AddDays(start, n)
              r == split_date_range(start, end)
          IN  /\ r.st = "returned"
              /\ Generated(start, end,
                           IF m = "monthly" THEN r.val.monthly
                           ELSE r.val.daily, m)

\* one element is removed from a generated list (del dates[i])
RemoveOne ==
    /\ pc = "check"
    /\ origin.from = "generator"
    /\ origin.removed = 0
    /\ check_result = NotCalled
    /\ \E i \in 1..Len(dates_arg) :
          /\ dates_arg' = SubSeq(dates_arg, 1, i - 1)
                          \o SubSeq(dates_arg, i + 1, Len(dates_arg))
          /\ origin' = [origin EXCEPT !.removed = i]
    /\ UNCHANGED <<start_date, end_date, mode_arg, check_result, checkFrame>>

\* the caller passes a list of its own
ChooseDates ==
    /\ pc = "check"
    /\ origin.from = "none"
    /\ dates_arg' \in SeqsUpTo(CheckDates, MaxCheckLen)
    /\ mode_arg' \in Modes \cup OtherModes
    /\ origin' = [from |-> "caller", removed |-> 0, len |-> Len(dates_arg')]
    /\ UNCHANGED <<start_date, end_date, check_result, checkFrame>>

\* check_result = check_date_range(dates, mode): the assertion on the
\* mode, then the scan
CallCheck ==
    /\ pc = "check"
    /\ origin.from # "none"
    /\ check_result = NotCalled
    /\ check_result' =
          IF mode_arg \notin Modes THEN [st |-> "AssertionError"]
          ELSE Returned(check_date_range(dates_arg, mode_arg))
    /\ UNCHANGED <<start_date, end_date, dates_arg, mode_arg, origin,
                   checkFrame>>

NextCheck ==
    \/ GenerateDaily
    \/ GenerateMonthly
    \/ SplitRange
    \/ RemoveOne
    \/ ChooseDates
    \/ CallCheck

SpecCheck == InitCheck /\ [][NextCheck]_vars

\* C14: check_date_range reports no violation for a list as produced by
\* generate_daily_date_range, generate_monthly_date_range or
\* split_date_range for start <= end, and reports a violation once one
\* element that is neither the first nor the last has been removed
C14_GeneratedValidMiddleRemovedInvalid ==
    (check_result.st = "returned" /\ origin.from = "generator") =>
        /\ origin.removed = 0 => check_result.val = NoViolation
        /\ (1 < origin.removed /\ origin.removed < origin.len) =>
               check_result.val # NoViolation

\* check_date_range has reported the gap left by the middle month of a
\* three-month list
C14_Witness ==
    /\ check_result.st = "returned"
    /\ origin = [from |-> "generator", removed |-> 2, len |-> 3]
    /\ mode_arg = "monthly"
    /\ dates_arg = <<<<2024, 1, 1>>, <<2024, 3, 1>>>>
    /\ check_result.val.kind = "more than 31 days after"

\* the positions i whose pair (dates[i], dates[i + 1]) has a gap that the
\* mode does not allow
GapViolations(ds, m) ==
    {i \in 1..(Len(ds) - 1) :
        IF m = "monthly" THEN DaysBetween(ds[i], ds[i + 1]) \notin 28..31
        ELSE DaysBetween(ds[i], ds[i + 1]) # 1}

\* the positions whose pair, in monthly mode, holds a date that is not the
\* first of its month
DayViolations(ds, m) ==
    {i \in 1..(Len(ds) - 1) :
        m = "monthly" /\ (Day(ds[i]) # 1 \/ Day(ds[i + 1]) # 1)}

\* the result describes the first pair of the set V, None when V is empty
ReportsFirstOf(V) ==
    /\ check_result.st = "returned"
    /\ IF V = {} THEN check_result.val = NoViolation
       ELSE LET i == CHOOSE k \in V : \A l \in V : k <= l
            IN  /\ check_result.val # NoViolation
                /\ check_result.val.d1 = dates_arg[i]
                /\ check_result.val.d2 = dates_arg[i + 1]

C16_MonthlyRejectsDayNotFirst ==
    (/\ check_result.st = "returned"
     /\ mode_arg = "monthly"
     /\ \E i \in 1..Len(dates_arg) : Day(dates_arg[i]) # 1) =>
        check_result.val # NoViolation

\* ------------------------------------------------------------------------
\* bdms/merge.py: merge_database, the loop that builds the jobs
\* ------------------------------------------------------------------------
data_base_format == "zip"
output_format == "parquet"

\* last_month.replace(month=(m+1)%12 or 12, year=y+(m+1)//12)
target_date(last_month) ==
    LET m1 == (Month(last_month) + 1) % 12
    IN  <<Year(last_month) + ((Month(last_month) + 1) \div 12),
          IF m1 = 0 THEN 12 ELSE m1,
          Day(last_month)>>

\* a segment file of a directory: the date in its name and its extension
Segment(d, ext) == [date |-> d, ext |-> ext]

DatesOf(files) == [i \in 1..Len(files) |-> files[i].date]

\* os.path.join(path_monthly, f) / os.path.join(path_daily, f)
PathsOf(key, time_period, files) ==
    [i \in 1..Len(files) |->
        [key |-> key, time_period |-> time_period, file |-> files[i]]]

\* the directory save_path of a key: the base path without data/, monthly/
\* and the symbol (merge.py:266-274)
SavePath(key) ==
    <<"merged", key.trading_type, key.market_data_type, key.interval>>

\* os.path.join(save_path, f"{symbol}.{output_format}") for a given
\* output format
OutputFileAs(key, ext) ==
    [save_path |-> SavePath(key), name |-> key.symbol, ext |-> ext]

\* os.path.join(save_path, f"{symbol}.{output_format}")
OutputFile(key) == OutputFileAs(key, output_format)

\* bdms/enums.py
SPOT_TYPES == {"trades", "aggTrades", "klines"}

DAILY_FUTURES_TYPES ==
    {"aggTrades", "bookDepth", "indexPriceKlines", "klines",
     "liquidationSnapshot", "markPriceKlines", "metrics",
     "premiumIndexKlines", "trades"}

MONTHLY_FUTURES_TYPES ==
    {"aggTrades", "fundingRate", "indexPriceKlines", "klines",
     "markPriceKlines", "premiumIndexKlines", "trades"}

\* "klines" in market_data_type.lower(), over the market data types
IsKlines(market_data_type) ==
    market_data_type \in {"klines", "indexPriceKlines", "markPriceKlines",
                          "premiumIndexKlines"}

\* the orders in which a set can be iterated
Perms(S) ==
    {s \in [1..Cardinality(S) -> S] :
        \A i, j \in 1..Cardinality(S) : i # j => s[i] # s[j]}

\* get_valid_combinations: the lists it can return; list(set(...)) fixes
\* no order for the data types of one trading type
get_valid_combinations(trading_types, market_data_types) ==
    LET For(tt, types) ==
            IF tt \in Range(trading_types)
            THEN {[i \in 1..Len(order) |-> <<tt, order[i]>>] :
                     order \in Perms(Range(market_data_types) \cap types)}
            ELSE {<<>>}
        futures == DAILY_FUTURES_TYPES \cup MONTHLY_FUTURES_TYPES
    IN  {spot \o um \o cm :
            spot \in For("spot", SPOT_TYPES),
            um \in For("um", futures),
            cm \in For("cm", futures)}

\* the argument intervals: None, or a list
NoIntervals == [given |-> FALSE, list |-> <<>>]
Intervals(list) == [given |-> TRUE, list |-> list]

\* the iterations of the nested loops at merge.py:158, 168 in order, one
\* key each; a kline-like data type without intervals has the one
\* iteration that raises (merge.py:160-165)
Iterations(symbols, combos, intervals) ==
    LET n == Len(combos)
        Of(sym, c) ==
            IF IsKlines(c[2]) /\ intervals.given
            THEN [i \in 1..Len(intervals.list) |->
                     KeyOf(sym, c[1], c[2], intervals.list[i])]
            ELSE <<KeyOf(sym, c[1], c[2], "None")>>
    IN  Flatten([i \in 1..(Len(symbols) * n) |->
                    Of(symbols[((i - 1) \div n) + 1],
                       combos[((i - 1) % n) + 1])])

\* the iteration of this key raises ValueError("Intervals must be provided
\* for klines.")
RaisesNoIntervals(key) ==
    IsKlines(key.market_data_type) /\ key.interval = "None"

\* the kline intervals with one table for both time periods
INTERVALS_MAP_Same(time_period) ==
    {"1s", "1m", "3m", "5m", "15m", "30m", "1h", "2h", "4h", "6h", "8h",
     "12h", "1d", "3d", "1w", "1mo"}

\* the kline intervals of a time period
INTERVALS_MAP(time_period) ==
    LET daily == {"1m", "3m", "5m", "15m", "30m", "1h", "2h", "4h", "6h",
                  "8h", "12h", "1d"}
    IN  IF time_period = "daily"
        THEN daily
        ELSE daily \cup {"1s", "3d", "1w", "1mo"}

\* get_base_path returns a path: its assertions on the interval hold
get_base_path_ok(market_data_type, time_period, interval) ==
    IF IsKlines(market_data_type)
    THEN interval # "None" /\ interval \in INTERVALS_MAP(time_period)
    ELSE interval = "None"

\* the date extract_dates_from_filenames reads in the name of a file; a
\* name it cannot read as a date has none and makes strptime raise
NoDate == <<>>

\* extract_dates_from_filenames returns for this listing: every name, of
\* whatever format, reads as a date
extract_dates_ok(listing) ==
    \A i \in DOMAIN listing : listing[i].date # NoDate

\* the exception that leaves the iteration of a key before its listings
\* are filtered: the two get_base_path calls come first, then the monthly
\* listing, then the daily one (merge.py:168-207)
Raises(key) ==
    IF ~get_base_path_ok(key.market_data_type, "monthly", key.interval)
    THEN "AssertionError"
    ELSE IF ~get_base_path_ok(key.market_data_type, "daily", key.interval)
    THEN "AssertionError"
    ELSE IF ~extract_dates_ok(fs[key].monthly)
    THEN "ValueError: time data"
    ELSE IF ~extract_dates_ok(fs[key].daily)
    THEN "ValueError: time data"
    ELSE "none"

\* the files of a listing kept by the loops at merge.py:193-199, 209-215
Selected(listing, sd, ed) ==
    LET Keep(f) == /\ f.ext = data_base_format
                   /\ DateLE(sd, f.date) /\ DateLE(f.date, ed)
    IN  SelectSeq(listing, Keep)

\* one iteration of the loop over the keys, for the key at position idx:
\* the values of its local variables and what it does
Iteration(key) ==
    LET monthly_files == Selected(fs[key].monthly, start_date, end_date)
        daily_files == Selected(fs[key].daily, start_date, end_date)
        m_dates == DatesOf(monthly_files)
        d_dates == DatesOf(daily_files)
        dates == intersect_dates(m_dates, d_dates)
        InDaily(f) == f.date \in Range(dates.daily)
        kept_daily == SelectSeq(daily_files, InDaily)
        InMonthly(f) == f.date \in Range(dates.monthly)
        kept_monthly == SelectSeq(monthly_files, InMonthly)
        has_daily == Len(kept_daily) > 0
        has_monthly == Len(kept_monthly) > 0
        checked == has_monthly /\ has_daily /\ check_continuous
        target == IF checked
                  THEN target_date(dates.monthly[Len(dates.monthly)])
                  ELSE <<>>
        paths == PathsOf(key, "monthly", kept_monthly)
                 \o PathsOf(key, "daily", kept_daily)
    IN  [key |-> key,
         monthly_dates |-> m_dates,
         daily_dates |-> d_dates,
         monthly_check |-> IF check_continuous
                           THEN check_date_range(m_dates, "monthly")
                           ELSE NoViolation,
         daily_check |-> IF check_continuous
                         THEN check_date_range(d_dates, "daily")
                         ELSE NoViolation,
         dates |-> dates,
         target_date |-> target,
         paths |-> paths,
         outcome |-> IF checked /\ dates.daily[1] # target
                     THEN "not continuous"
                     ELSE IF paths = <<>> THEN "no files" ELSE "job"]

\* the warnings of one iteration without the one for a key without files
WarningsOf_NoFilesSilent(it) ==
    (IF it.dates.warned
     THEN <<[category |-> "UserWarning", kind |-> "daily before monthly",
             key |-> it.key, date |-> <<>>]>>
     ELSE <<>>)
    \o (IF it.outcome = "not continuous"
        THEN <<[category |-> "RuntimeWarning", kind |-> "not continuous",
                key |-> it.key, date |-> it.target_date]>>
        ELSE <<>>)

\* the warnings of one iteration, in the order they are emitted
WarningsOf(it) ==
    (IF it.dates.warned
     THEN <<[category |-> "UserWarning", kind |-> "daily before monthly",
             key |-> it.key, date |-> <<>>]>>
     ELSE <<>>)
    \o (IF it.outcome = "not continuous"
        THEN <<[category |-> "RuntimeWarning", kind |-> "not continuous",
                key |-> it.key, date |-> it.target_date]>>
        ELSE IF it.outcome = "no files"
        THEN <<[category |-> "RuntimeWarning", kind |-> "no files",
                key |-> it.key, date |-> <<>>]>>
        ELSE <<>>)

\* ------------------------------------------------------------------------
\* Specification SpecBuild: segment files appear in the directories, then
\* merge_database is called and builds its jobs
\* ------------------------------------------------------------------------
MaxFiles == 2

MonthlySegments ==
    {Segment(<<2024, 11, 1>>, "zip"), Segment(<<2024, 12, 1>>, "zip"),
     Segment(<<2025, 1, 1>>, "zip"), Segment(<<2024, 12, 1>>, "csv")}

DailySegments ==
    {Segment(<<2024, 12, 1>>, "zip"), Segment(<<2024, 12, 2>>, "zip"),
     Segment(<<2025, 1, 1>>, "zip"), Segment(<<2025, 12, 1>>, "zip")}

StartDates == {<<1970, 1, 1>>, <<2024, 12, 2>>}
EndDates == {<<2026, 1, 1>>, <<2024, 12, 1>>}

\* the arguments symbols, trading_types, market_data_types and intervals
Request(symbols, market_data_types, intervals) ==
    [symbols |-> symbols, trading_types |-> <<"spot">>,
     market_data_types |-> market_data_types, intervals |-> intervals]

Requests ==
    {Request(<<"BTCUSDT", "ETHUSDT">>, <<"trades">>, NoIntervals),
     Request(<<"BTCUSDT", "BTCUSDT">>, <<"trades">>, NoIntervals),
     Request(<<"BTCUSDT">>, <<"trades", "klines">>, NoIntervals),
     Request(<<"BTCUSDT">>, <<"klines">>, Intervals(<<"1d", "1w">>))}

\* a file that is not a segment of the database format and whose name
\* does not read as a date, such as BTCUSDT-trades-2024-12.zip.CHECKSUM
OtherFile == [date |-> NoDate, ext |-> "CHECKSUM"]

\* the files that can appear in the directories of a key
MonthlyFiles(key) ==
    IF IsKlines(key.market_data_type)
    THEN {Segment(<<2024, 12, 1>>, "zip")}
    ELSE MonthlySegments \cup {OtherFile}

DailyFiles(key) ==
    IF IsKlines(key.market_data_type) THEN {} ELSE DailySegments

TotalFiles ==
    Cardinality({<<k, i>> \in KeySet \X (1..MaxFiles) :
                    i <= Len(fs[k].monthly)})
    + Cardinality({<<k, i>> \in KeySet \X (1..MaxFiles) :
                    i <= Len(fs[k].daily)})

InitBuild ==
    /\ pc = "populate"
    /\ start_date = <<1970, 1, 1>>
    /\ end_date = <<1970, 1, 1>>
    /\ SplitIdle
    /\ IsectIdle
    /\ CheckIdle
    /\ NameIdle
    /\ PopIdle
    /\ BuildIdle
    /\ ExecIdle

\* a monthly segment file appears in the monthly directory of a key; the
\* listing order of os.listdir is arbitrary
AddMonthlySegment ==
    /\ pc = "populate"
    /\ TotalFiles < MaxFiles
    /\ \E k \in KeySet :
       \E f \in MonthlyFiles(k) :
          /\ f \notin Range(fs[k].monthly)
          /\ fs' = [fs EXCEPT ![k].monthly = Append(@, f)]
    /\ UNCHANGED <<pc, start_date, end_date, splitVars, isectVars, checkVars,
                   nameVars, popVars,
                   combinations, check_continuous, idx, jobs, warnings,
                   dirs_made, keylog, execVars>>

\* a daily segment file appears in the daily directory of a key
AddDailySegment ==
    /\ pc = "populate"
    /\ TotalFiles < MaxFiles
    /\ \E k \in KeySet :
       \E f \in DailyFiles(k) :
          /\ f \notin Range(fs[k].daily)
          /\ fs' = [fs EXCEPT ![k].daily = Append(@, f)]
    /\ UNCHANGED <<pc, start_date, end_date, splitVars, isectVars, checkVars,
                   nameVars, popVars,
                   combinations, check_continuous, idx, jobs, warnings,
                   dirs_made, keylog, execVars>>

\* merge_database is called: arguments parsed, combinations computed,
\* jobs = [] (merge.py:137-156)
StartMerge ==
    /\ pc = "populate"
    /\ \E sd \in StartDates, ed \in EndDates, cc \in BOOLEAN,
          req \in Requests :
          /\ start_date' = sd
          /\ end_date' = ed
          /\ check_continuous' = cc
          /\ \E combos \in get_valid_combinations(req.trading_types,
                                                  req.market_data_types) :
                combinations' = Iterations(req.symbols, combos, req.intervals)
    /\ idx' = 1
    /\ jobs' = <<>>
    /\ pc' = "loop"
    /\ UNCHANGED <<splitVars, isectVars, checkVars,
                   nameVars, popVars, fs, warnings, dirs_made,
                   keylog,
                   execVars>>

\* one iteration of the loop at merge.py:158-279
ProcessKey ==
    /\ pc = "loop"
    /\ idx <= Len(combinations)
    /\ ~RaisesNoIntervals(combinations[idx])
    /\ Raises(combinations[idx]) = "none"
    /\ LET it == Iteration(combinations[idx])
       IN  /\ keylog' = Append(keylog, it)
           /\ warnings' = warnings \o WarningsOf(it)
           /\ IF it.outcome = "job"
              THEN /\ dirs_made' = dirs_made \cup {SavePath(it.key)}
                   /\ jobs' = Append(jobs,
                          [paths |-> it.paths,
                           output_file |-> OutputFile(it.key)])
              ELSE UNCHANGED <<dirs_made, jobs>>
    /\ idx' = idx + 1
    /\ UNCHANGED <<pc, start_date, end_date, splitVars, isectVars,
                   checkVars, nameVars, popVars, fs,
                   combinations, check_continuous, execVars>>

\* the iteration of a kline-like data type without intervals: ValueError
\* leaves merge_database (merge.py:160-165)
RaiseValueError ==
    /\ pc = "loop"
    /\ idx <= Len(combinations)
    /\ RaisesNoIntervals(combinations[idx])
    /\ pc' = "ValueError"
    /\ UNCHANGED <<start_date, end_date, splitVars, isectVars, checkVars,
                   nameVars, popVars,
                   buildVars,
                   execVars>>

\* an assertion of get_base_path fails in the iteration of a key whose
\* interval is not in the table of the time period: AssertionError leaves
\* merge_database (merge.py:168-177, utils.py:48-53)
RaiseAssertionError ==
    /\ pc = "loop"
    /\ idx <= Len(combinations)
    /\ ~RaisesNoIntervals(combinations[idx])
    /\ Raises(combinations[idx]) = "AssertionError"
    /\ pc' = "AssertionError"
    /\ UNCHANGED <<start_date, end_date, splitVars, isectVars, checkVars,
                   nameVars, popVars,
                   buildVars,
                   execVars>>

\* extract_dates_from_filenames meets a name it cannot read as a date in
\* a listing of the key: the ValueError of strptime leaves merge_database
\* (merge.py:190-191, 206-207, utils.py:271-280)
RaiseTimeDataError ==
    /\ pc = "loop"
    /\ idx <= Len(combinations)
    /\ ~RaisesNoIntervals(combinations[idx])
    /\ Raises(combinations[idx]) = "ValueError: time data"
    /\ pc' = "ValueError: time data"
    /\ UNCHANGED <<start_date, end_date, splitVars, isectVars, checkVars,
                   nameVars, popVars,
                   buildVars,
                   execVars>>

\* the loop is over: return when there is no job, else go on to the pool
\* (merge.py:281-287)
EndLoop ==
    /\ pc = "loop"
    /\ idx > Len(combinations)
    /\ pc' = IF jobs = <<>> THEN "returned" ELSE "pool"
    /\ UNCHANGED <<start_date, end_date, splitVars, isectVars, checkVars,
                   nameVars, popVars,
                   buildVars,
                   execVars>>

NextBuild ==
    \/ AddMonthlySegment
    \/ AddDailySegment
    \/ StartMerge
    \/ ProcessKey
    \/ RaiseValueError
    \/ RaiseAssertionError
    \/ RaiseTimeDataError
    \/ EndLoop

SpecBuild == InitBuild /\ [][NextBuild]_vars

Last(s) == s[Len(s)]

\* C3: whenever merge_database computes the expected first daily date, it
\* is the first day of the calendar month after the month of the last
\* monthly date (month m+1 of year y, January of year y+1 when m = 12)
C3_TargetIsFirstOfNextMonth ==
    \A i \in 1..Len(keylog) :
        keylog[i].target_date # <<>> =>
            keylog[i].target_date
                = FirstOfNextMonth(Last(keylog[i].dates.monthly))

\* the job of a finished iteration is built from gap-free lists that meet
\* at the month boundary
JobIsContinuous(e) ==
    /\ check_date_range(e.dates.monthly, "monthly") = NoViolation
    /\ check_date_range(e.dates.daily, "daily") = NoViolation
    /\ (e.dates.monthly # <<>> /\ e.dates.daily # <<>>) =>
           e.dates.daily[1] = FirstOfNextMonth(Last(e.dates.monthly))

\* C4: with continuity checking on, every job comes from a monthly and a
\* daily list that pass check_date_range and meet at the month boundary,
\* and a key whose monthly or daily segments have a gap yields no job
C4_JobsOnlyFromContinuousSegments ==
    check_continuous =>
        \A i \in 1..Len(keylog) :
            /\ keylog[i].outcome = "job" => JobIsContinuous(keylog[i])
            /\ (\/ keylog[i].monthly_check # NoViolation
                \/ keylog[i].daily_check # NoViolation) =>
                   keylog[i].outcome # "job"

\* C10: with continuity checking on, a key with monthly and daily segments
\* whose first daily date is not the first day of the month after the last
\* monthly date yields no job and a warning that states that expected date
C10_AdjacencyFailureSkipsWithExpectedDate ==
    check_continuous =>
        \A i \in 1..Len(keylog) :
            LET e == keylog[i]
            IN  (/\ e.dates.monthly # <<>>
                 /\ e.dates.daily # <<>>
                 /\ e.dates.daily[1]
                        # FirstOfNextMonth(Last(e.dates.monthly))) =>
                    /\ e.outcome = "not continuous"
                    /\ \E w \in Range(warnings) :
                          /\ w.kind = "not continuous"
                          /\ w.key = e.key
                          /\ w.date = FirstOfNextMonth(Last(e.dates.monthly))

\* the dates of the paths of one time period, in path order
PathDates(paths, time_period) ==
    LET Of(p) == p.time_period = time_period
        sel == SelectSeq(paths, Of)
    IN  [i \in 1..Len(sel) |-> sel[i].file.date]

Ascending(dates) ==
    \A i \in 1..(Len(dates) - 1) : DateLT(dates[i], dates[i + 1])

\* C11: in every job the source paths are the monthly segment paths in
\* ascending date order followed by the daily segment paths in ascending
\* date order, whatever the order of the directory listings
C11_PathsMonthlyThenDailyAscending ==
    \A i \in 1..Len(jobs) :
        LET paths == jobs[i].paths
        IN  /\ Ascending(PathDates(paths, "monthly"))
            /\ Ascending(PathDates(paths, "daily"))
            /\ \A a, b \in 1..Len(paths) :
                   (/\ paths[a].time_period = "daily"
                    /\ paths[b].time_period = "monthly") => b < a

\* C12: no two jobs that merge_database hands to the worker pool have the
\* same destination file, whatever lists of symbols, trading types, market
\* data types and intervals were passed
C12_DestinationsDistinct ==
    pc = "pool" =>
        \A i, j \in 1..Len(jobs) :
            i # j => jobs[i].output_file # jobs[j].output_file

\* C13: every segment of every job has a date d with
\* start_date <= d < end_date; a segment dated end_date is in no job
C13_SegmentsInHalfOpenRange ==
    \A i \in 1..Len(jobs) :
        \A p \in Range(jobs[i].paths) :
            DateLE(start_date, p.file.date) /\ DateLT(p.file.date, end_date)

\* C19: when merge_database raises because a kline-like market data type
\* was requested without intervals, no job has been built and no output
\* directory has been created
C19_NoIntervalsRaisesBeforeAnyWork ==
    pc = "ValueError" => jobs = <<>> /\ dirs_made = {}

\* C20: a call of merge_database with start_date later than end_date does
\* not complete normally: it neither returns nor goes on to the pool
C20_StartAfterEndFails ==
    DateLT(end_date, start_date) => pc \notin {"returned", "pool"}

\* C23: with check_continuous set, every key whose monthly or daily date
\* list fails check_date_range has a warning emitted for it, and the request
\* goes on
Warned(key) == \E w \in Range(warnings) : w.key = key

C23_FailedListIsWarned ==
    check_continuous =>
        \A i \in DOMAIN keylog :
            (keylog[i].monthly_check # NoViolation
                \/ keylog[i].daily_check # NoViolation)
            => Warned(keylog[i].key)

\* C27: a file whose name does not end with the database format is never
\* merged and never makes merge_database fail
JobPaths == UNION {Range(jobs[j].paths) : j \in DOMAIN jobs}

C27_OtherFormatFilesAreIgnored ==
    /\ \A p \in JobPaths : p.file.ext = data_base_format
    /\ pc # "ValueError: time data"

\* C24: a key whose reconciled lists hold no segment gets the no-files
\* warning and no job, and the loop goes on to the keys after it; when the
\* loop ends without a job merge_database returns and starts no pool
NoSegmentRemains(e) == e.dates.monthly = <<>> /\ e.dates.daily = <<>>

C24_EmptyKeySkippedWithWarning ==
    /\ \A i \in DOMAIN keylog :
           NoSegmentRemains(keylog[i]) =>
               /\ \E w \in Range(warnings) :
                      w.kind = "no files" /\ w.key = keylog[i].key
               /\ \A j \in DOMAIN jobs :
                      jobs[j].output_file # OutputFile(keylog[i].key)
    /\ pc = "loop" => Len(keylog) = idx - 1
    /\ pc \in {"returned", "pool"} => Len(keylog) = Len(combinations)
    /\ pc = "returned" => jobs = <<>> /\ tasks = <<>> /\ pbar.total = 0
    /\ pc = "pool" => jobs # <<>>

\* the first key has files, none of them kept; the second key yields a job
C24_Witness ==
    /\ pc = "pool"
    /\ Len(keylog) = 2
    /\ NoSegmentRemains(keylog[1])
    /\ fs[keylog[1].key].monthly # <<>>
    /\ keylog[2].outcome = "job"
    /\ Len(jobs) = 1

\* C29: a request with a kline interval of the monthly table that is not in
\* the daily table never returns and never reaches the pool; the iteration
\* of such a key raises AssertionError whatever files the key has, is never
\* carried out, and the jobs built before it are run by nobody
MonthlyOnly(key) ==
    /\ IsKlines(key.market_data_type)
    /\ key.interval \in {"1s", "3d", "1w", "1mo"}

AtMonthlyOnlyKey ==
    /\ pc = "loop"
    /\ idx <= Len(combinations)
    /\ MonthlyOnly(combinations[idx])

C29_MonthlyOnlyIntervalFails ==
    /\ []((\E i \in DOMAIN combinations : MonthlyOnly(combinations[i]))
              => pc \notin {"returned", "pool"})
    /\ [](\A i \in DOMAIN keylog : ~MonthlyOnly(keylog[i].key))
    /\ [](pc = "AssertionError" => tasks = <<>> /\ pbar.total = 0)
    /\ [][AtMonthlyOnlyKey => pc' = "AssertionError" /\ jobs' = jobs]_vars

\* the job of the 1d key is built, then the 1w key, which has a monthly
\* segment, raises
C29_Witness ==
    /\ pc = "AssertionError"
    /\ MonthlyOnly(combinations[idx])
    /\ fs[combinations[idx]].monthly # <<>>
    /\ Len(jobs) = 1
    /\ tasks = <<>>

\* ------------------------------------------------------------------------
\* bdms/merge.py: concatenate_dfs_on_disk and the worker pool
\* ------------------------------------------------------------------------
Min(a, b) == IF a < b THEN a ELSE b

\* the tasks that occupy a worker process
Running(ts) == {j \in DOMAIN ts : ts[j].st \in {"write", "except"}}

NewTask == [st |-> "unsubmitted", i |-> 0, failure |-> "none",
            failed_at |-> 0, raised |-> "none", result |-> "pending"]

\* a task raised and the pool is terminated: no other task goes on
HandleError_Terminate(ts, j, exc) ==
    [k \in DOMAIN ts |->
        IF k = j
        THEN [ts[k] EXCEPT !.st = "done", !.failure = exc, !.result = exc]
        ELSE IF ts[k].st = "done" THEN ts[k]
        ELSE [ts[k] EXCEPT !.st = "done", !.result = "terminated"]]

\* a task raised: the pool stores the exception in the AsyncResult that
\* apply_async returned; there is no error_callback (merge.py:292-295)
HandleError(ts, j, exc) ==
    [ts EXCEPT ![j].st = "done", ![j].failure = exc, ![j].result = exc]

\* all([os.path.exists(p) for p in paths]) (merge.py:41)
AllExist(paths) ==
    \A i \in 1..Len(paths) : content[paths[i]].status # "missing"

\* load_df_with_unkwon_format(path) and the write of its rows succeed
Readable(path) == content[path].status = "ok"

\* the rows a segment adds to the destination
RowsOf(path) ==
    [path |-> path, first_id |-> content[path].first_id,
     last_id |-> content[path].last_id]

\* storage_format = output_file.split(".")[-1].lower() (merge.py:45)
StorageFormat(output_file) == output_file.ext

\* a header line with every segment
IncludeHeader_Always(csv, first_file) == csv

\* include_header=first_file (merge.py:51-55); no header line in parquet
IncludeHeader(csv, first_file) == csv /\ first_file

\* what one write puts into the destination: the rows of a segment, with
\* the header line of its columns before them when include_header
\* (df.write_csv, merge.py:54; writer.write_table, merge.py:63, 66)
Chunk(path, include_header) ==
    [rows |-> RowsOf(path), columns |-> content[path].schema,
     header |-> include_header]

\* a parquet writer that accepts a table of any schema
FitsWriter_Any(paths, i) == TRUE

\* pq.ParquetWriter(f, table.schema) accepts the table of this segment:
\* its schema is the one of the first segment (merge.py:59-66)
FitsWriter(paths, i) ==
    content[paths[i]].schema = content[paths[1]].schema

\* ------------------------------------------------------------------------
\* Specification SpecExec: merge_database has built one job per requested
\* key and runs them in the pool; source files may be unreadable or may be
\* deleted while the pool runs, and the segments of one symbol carry a gap
\* in their identifiers
\* ------------------------------------------------------------------------
MaxSegments == 3
MaxCpu == 2
MaxDefects == 1
RowsPerSegment == 10

ExecRequest == <<Key("BTCUSDT"), Key("ETHUSDT")>>

\* the segments of a key: one monthly file, then consecutive daily files
ExecPaths(key, n) ==
    SubSeq(PathsOf(key, "monthly", <<Segment(<<2024, 12, 1>>, "zip")>>)
           \o PathsOf(key, "daily",
                  [i \in 1..MaxSegments |->
                      Segment(AddDays(<<2025, 1, 1>>, i - 1), "zip")]),
           1, n)

OutputFormats == {"csv", "parquet"}

ExecJobs(n, ext) ==
    [j \in 1..Len(ExecRequest) |->
        [paths |-> ExecPaths(ExecRequest[j], n),
         output_file |-> OutputFileAs(ExecRequest[j], ext)]]

SourcePaths(js) == UNION {Range(js[j].paths) : j \in 1..Len(js)}

\* the position of a path in its job
IndexIn(paths, p) == CHOOSE i \in 1..Len(paths) : paths[i] = p
JobOf(js, p) == CHOOSE j \in 1..Len(js) : p \in Range(js[j].paths)
PositionOf(js, p) == IndexIn(js[JobOf(js, p)].paths, p)

\* the symbol whose second segment starts one identifier late
GapSymbol == "ETHUSDT"

\* a segment as acquired: readable, RowsPerSegment rows, identifiers
\* following those of the segment before it except for GapSymbol
Pristine(js, p) ==
    LET late == IF p.key.symbol = GapSymbol /\ PositionOf(js, p) = 2
                THEN 1 ELSE 0
    IN  [status |-> "ok",
         schema |-> "trades",
         first_id |-> (PositionOf(js, p) - 1) * RowsPerSegment + 1 + late,
         last_id |-> PositionOf(js, p) * RowsPerSegment]

\* the ways a segment file can be defective when the pool starts: it
\* cannot be loaded, or it loads with other columns than the rest
DefectKinds == {"corrupt", "other columns"}

Defective(seg, kind) ==
    IF kind = "corrupt" THEN [seg EXCEPT !.status = "corrupt"]
    ELSE [seg EXCEPT !.schema = "aggTrades"]

\* the segments that are not as acquired
Defects(c) ==
    {p \in DOMAIN c : c[p].status # "ok" \/ c[p].schema # "trades"}

\* a destination file left by an earlier run
Stale ==
    [exists |-> TRUE, closed |-> TRUE, written |-> <<>>, stale |-> TRUE,
     touched |-> FALSE]

\* the file after open(output_file, mode="wb"): created or truncated
Opened ==
    [exists |-> TRUE, closed |-> FALSE, written |-> <<>>, stale |-> FALSE,
     touched |-> TRUE]

\* the path after os.remove(output_file)
Removed == [Absent EXCEPT !.touched = TRUE]

InitExec ==
    /\ pc = "pool"
    /\ start_date = <<1970, 1, 1>>
    /\ end_date = <<2026, 1, 1>>
    /\ SplitIdle
    /\ IsectIdle
    /\ CheckIdle
    /\ NameIdle
    /\ PopIdle
    /\ fs = [k \in KeySet |-> EmptyDirs]
    /\ combinations = ExecRequest
    /\ check_continuous = TRUE
    /\ idx = Len(ExecRequest) + 1
    /\ \E n \in 1..MaxSegments, ext \in OutputFormats :
          jobs = ExecJobs(n, ext)
    /\ warnings = <<>>
    /\ dirs_made = {SavePath(ExecRequest[j]) : j \in 1..Len(ExecRequest)}
    /\ keylog = <<>>
    /\ \E bad \in SUBSET SourcePaths(jobs), kind \in DefectKinds :
          /\ Cardinality(bad) <= MaxDefects
          /\ content = [p \in SourcePaths(jobs) |->
                          IF p \in bad
                          THEN Defective(Pristine(jobs, p), kind)
                          ELSE Pristine(jobs, p)]
    /\ \E before \in {Absent, Stale} :
          dest = [f \in {jobs[j].output_file : j \in 1..Len(jobs)} |->
                     before]
    /\ n_jobs = 0
    /\ pbar = [total |-> 0, n |-> 0]
    /\ tasks = <<>>

execFrame == <<start_date, end_date, splitVars, isectVars, checkVars,
               nameVars, popVars, fs,
               combinations,
               check_continuous, idx, jobs, dirs_made, keylog>>

\* the task of job j has not loaded its segment number i yet
NotLoaded(j, i) ==
    IF tasks = <<>> THEN TRUE
    ELSE IF tasks[j].st = "write" THEN tasks[j].i <= i
    ELSE tasks[j].st \in {"unsubmitted", "queued"}

\* a source file that is still to be loaded is deleted by another process
DeleteSource ==
    /\ pc \in {"pool", "submit", "join"}
    /\ Cardinality(Defects(content)) < MaxDefects
    /\ \E p \in DOMAIN content :
          /\ content[p].status = "ok"
          /\ NotLoaded(JobOf(jobs, p), PositionOf(jobs, p))
          /\ content' = [content EXCEPT ![p].status = "missing"]
    /\ UNCHANGED <<pc, execFrame, warnings, dest, n_jobs, pbar, tasks>>

\* pbar = tqdm(total=len(jobs)); n_jobs = min(cpu_count(), len(jobs));
\* pool = Pool(n_jobs, maxtasksperchild=1) (merge.py:287-290)
CreatePool ==
    /\ pc = "pool"
    /\ \E cpu_count \in 1..MaxCpu : n_jobs' = Min(cpu_count, Len(jobs))
    /\ pbar' = [total |-> Len(jobs), n |-> 0]
    /\ tasks' = [j \in 1..Len(jobs) |-> NewTask]
    /\ pc' = "submit"
    /\ UNCHANGED <<execFrame, warnings, content, dest>>

\* pool.apply_async(concatenate_dfs_on_disk, args=job, callback=...) for
\* the next job of the list (merge.py:291-295)
Submit ==
    /\ pc = "submit"
    /\ \E j \in DOMAIN tasks :
          /\ tasks[j].st = "unsubmitted"
          /\ \A k \in 1..(j - 1) : tasks[k].st # "unsubmitted"
          /\ tasks' = [tasks EXCEPT ![j].st = "queued"]
    /\ UNCHANGED <<pc, execFrame, warnings, content, dest, n_jobs, pbar>>

\* pool.close() after the last apply_async (merge.py:296)
ClosePool ==
    /\ pc = "submit"
    /\ \A j \in DOMAIN tasks : tasks[j].st # "unsubmitted"
    /\ pc' = "join"
    /\ UNCHANGED <<execFrame, warnings, content, dest, n_jobs, pbar, tasks>>

\* concatenate_dfs_on_disk with the existence check moved inside the try
\* block, after the open
TaskStart_OpenFirst ==
    /\ pc \in {"submit", "join"}
    /\ Cardinality(Running(tasks)) < n_jobs
    /\ \E j \in DOMAIN tasks :
          /\ tasks[j].st = "queued"
          /\ \A k \in 1..(j - 1) : tasks[k].st # "queued"
          /\ dest' = [dest EXCEPT ![jobs[j].output_file] = Opened]
          /\ IF AllExist(jobs[j].paths)
             THEN tasks' = [tasks EXCEPT ![j].st = "write", ![j].i = 1]
             ELSE tasks' = HandleError(tasks, j, "AssertionError")
    /\ UNCHANGED <<pc, execFrame, warnings, content, n_jobs, pbar>>

\* a free worker takes the oldest queued task and enters
\* concatenate_dfs_on_disk: the assertions of merge.py:41-47, then
\* open(output_file, mode="wb") (merge.py:49)
TaskStart ==
    /\ pc \in {"submit", "join"}
    /\ Cardinality(Running(tasks)) < n_jobs
    /\ \E j \in DOMAIN tasks :
          /\ tasks[j].st = "queued"
          /\ \A k \in 1..(j - 1) : tasks[k].st # "queued"
          /\ IF AllExist(jobs[j].paths)
             THEN /\ dest' = [dest EXCEPT ![jobs[j].output_file] = Opened]
                  /\ tasks' = [tasks EXCEPT ![j].st = "write", ![j].i = 1]
             ELSE /\ tasks' = HandleError(tasks, j, "AssertionError")
                  /\ UNCHANGED dest
    /\ UNCHANGED <<pc, execFrame, warnings, content, n_jobs, pbar>>

\* the next segment is loaded and written to the destination, or loading
\* it raises, or the parquet writer refuses its schema (merge.py:52-55,
\* 59-67)
TaskWrite ==
    /\ \E j \in DOMAIN tasks :
          /\ tasks[j].st = "write"
          /\ tasks[j].i <= Len(jobs[j].paths)
          /\ LET path == jobs[j].paths[tasks[j].i]
                 csv == StorageFormat(jobs[j].output_file) = "csv"
                 first_file == tasks[j].i = 1
             IN  IF Readable(path)
                    /\ (csv \/ FitsWriter(jobs[j].paths, tasks[j].i))
                 THEN /\ dest' = [dest EXCEPT
                             ![jobs[j].output_file].written =
                                 Append(@, Chunk(path,
                                     IncludeHeader(csv, first_file)))]
                      /\ tasks' = [tasks EXCEPT ![j].i = @ + 1]
                 ELSE /\ tasks' = [tasks EXCEPT
                             ![j].st = "except",
                             ![j].failed_at = tasks[j].i,
                             ![j].raised = IF Readable(path) THEN "schema"
                                           ELSE "load"]
                      /\ UNCHANGED dest
    /\ UNCHANGED <<pc, execFrame, warnings, content, n_jobs, pbar>>

\* all segments written: writer and file closed, the function returns
\* None (merge.py:68, 74-75)
TaskClose ==
    /\ \E j \in DOMAIN tasks :
          /\ tasks[j].st = "write"
          /\ tasks[j].i > Len(jobs[j].paths)
          /\ dest' = [dest EXCEPT ![jobs[j].output_file].closed = TRUE]
          /\ tasks' = [tasks EXCEPT ![j].st = "returning"]
    /\ UNCHANGED <<pc, execFrame, warnings, content, n_jobs, pbar>>

\* the except branch without os.remove(output_file)
TaskExcept_KeepFile ==
    /\ \E j \in DOMAIN tasks :
          /\ tasks[j].st = "except"
          /\ warnings' = Append(warnings,
                [category |-> "RuntimeWarning", kind |-> "removing",
                 key |-> jobs[j].paths[1].key, date |-> <<>>])
          /\ tasks' = [tasks EXCEPT ![j].st = "returning",
                                    ![j].failure = "caught"]
    /\ UNCHANGED <<pc, execFrame, content, dest, n_jobs, pbar>>

\* except Exception: warnings.warn(...); os.remove(output_file); the
\* function then returns None (merge.py:71-75)
TaskExcept ==
    /\ \E j \in DOMAIN tasks :
          /\ tasks[j].st = "except"
          /\ warnings' = Append(warnings,
                [category |-> "RuntimeWarning", kind |-> "removing",
                 key |-> jobs[j].paths[1].key, date |-> <<>>])
          /\ dest' = [dest EXCEPT ![jobs[j].output_file] = Removed]
          /\ tasks' = [tasks EXCEPT ![j].st = "returning",
                                    ![j].failure = "caught"]
    /\ UNCHANGED <<pc, execFrame, content, n_jobs, pbar>>

\* the pool receives the value of a task that returned and calls
\* callback=lambda _: pbar.update(1) (merge.py:294)
Callback ==
    /\ \E j \in DOMAIN tasks :
          /\ tasks[j].st = "returning"
          /\ pbar' = [pbar EXCEPT !.n = @ + 1]
          /\ tasks' = [tasks EXCEPT ![j].st = "done", ![j].result = "None"]
    /\ UNCHANGED <<pc, execFrame, warnings, content, dest, n_jobs>>

\* pool.join() that does not wait for the tasks
JoinPool_NoWait ==
    /\ pc = "join"
    /\ pc' = "returned"
    /\ UNCHANGED <<execFrame, warnings, content, dest, n_jobs, pbar, tasks>>

\* pool.join() returns once every task is done; pbar.close(); return
\* (merge.py:297-298)
JoinPool ==
    /\ pc = "join"
    /\ \A j \in DOMAIN tasks : tasks[j].st = "done"
    /\ pc' = "returned"
    /\ UNCHANGED <<execFrame, warnings, content, dest, n_jobs, pbar, tasks>>

NextExec ==
    \/ DeleteSource
    \/ CreatePool
    \/ Submit
    \/ ClosePool
    \/ TaskStart
    \/ TaskWrite
    \/ TaskClose
    \/ TaskExcept
    \/ Callback
    \/ JoinPool

SpecExec == InitExec /\ [][NextExec]_vars

\* concatenate_dfs_on_disk is over for task j
Ended(j) == tasks[j].st \in {"returning", "done"}

\* the destination of job j holds all its segments, in order, and is closed
Complete(j) ==
    /\ dest[jobs[j].output_file].exists
    /\ dest[jobs[j].output_file].closed
    /\ ~dest[jobs[j].output_file].stale
    /\ dest[jobs[j].output_file].written
           = [i \in 1..Len(jobs[j].paths) |->
                 Chunk(jobs[j].paths[i],
                       StorageFormat(jobs[j].output_file) = "csv" /\ i = 1)]

\* a segment of job j does not start at the identifier after the last one
\* of the segment before it
HasIdGap(j) ==
    \E i \in 2..Len(jobs[j].paths) :
        content[jobs[j].paths[i]].first_id
            # content[jobs[j].paths[i - 1]].last_id + 1

\* C5: when a segment's first identifier is not the last written identifier
\* + 1, concatenate_dfs_on_disk stops and no destination file exists after
C5_IdGapLeavesNoDestination ==
    \A j \in DOMAIN tasks :
        (Ended(j) /\ HasIdGap(j)) => ~dest[jobs[j].output_file].exists

SourcesFine(j) ==
    \A i \in 1..Len(jobs[j].paths) :
        /\ content[jobs[j].paths[i]].status = "ok"
        /\ \/ StorageFormat(jobs[j].output_file) = "csv"
           \/ FitsWriter(jobs[j].paths, i)

\* C7: when merge_database returns, every job whose own sources are fine
\* has written its destination completely, whatever happened to the others
C7_OtherJobsComplete ==
    pc = "returned" =>
        \A j \in DOMAIN tasks : SourcesFine(j) => Complete(j)

\* one job failed on a missing source file, every other job is complete
C7_Witness ==
    /\ pc = "returned"
    /\ Cardinality({j \in DOMAIN tasks :
                       tasks[j].failure = "AssertionError"}) = 1
    /\ Cardinality({j \in DOMAIN tasks : Complete(j)}) = Len(jobs) - 1

\* what the caller of merge_database gets to see of the failure of job j:
\* the warnings emitted for it (merge_database returns None and never
\* reads the AsyncResult of a task)
FailureReports(j) ==
    {n \in 1..Len(warnings) :
        /\ warnings[n].kind = "removing"
        /\ warnings[n].key = jobs[j].paths[1].key}

\* C8: when merge_database returns, every failed job has been reported as
\* a failure exactly once
C8_EveryFailureReported ==
    pc = "returned" =>
        \A j \in DOMAIN tasks :
            tasks[j].failure # "none" => Cardinality(FailureReports(j)) = 1

\* C17: merge_database returns only when every submitted job has reached
\* its terminal outcome, finished or failed; none is queued or running
C17_ReturnsAfterAllJobsEnded ==
    pc = "returned" =>
        /\ tasks # <<>>
        /\ \A j \in DOMAIN tasks : tasks[j].st = "done"

\* merge_database has returned after one job failed on an unreadable
\* segment and another one finished
C17_Witness ==
    /\ pc = "returned"
    /\ \E j \in DOMAIN tasks :
          tasks[j].st = "done" /\ tasks[j].failure = "caught"
    /\ \E j \in DOMAIN tasks :
          tasks[j].st = "done" /\ tasks[j].failure = "none" /\ Complete(j)

\* C18: the progress counter counts every job that has reached its
\* terminal outcome, succeeded or failed, exactly once, so that it equals
\* the number of submitted jobs when merge_database returns
C18_CounterCountsEveryJob ==
    /\ tasks # <<>> =>
           pbar.n = Cardinality({j \in DOMAIN tasks : tasks[j].st = "done"})
    /\ pc = "returned" => pbar.n = Len(jobs)

\* every source segment of job j is there and can be loaded
AllReadable(j) ==
    \A i \in 1..Len(jobs[j].paths) : content[jobs[j].paths[i]].status = "ok"

IsCsv(j) == StorageFormat(jobs[j].output_file) = "csv"

\* C21: for a csv destination and readable source segments, the output of
\* concatenate_dfs_on_disk is the header of the first segment once, then
\* the rows of all segments in source-file order, with no further header
C21_CsvHeaderOnceRowsInOrder ==
    \A j \in DOMAIN tasks :
        (Ended(j) /\ IsCsv(j) /\ AllReadable(j)) =>
            LET out == dest[jobs[j].output_file]
            IN  /\ out.exists /\ out.closed
                /\ Len(out.written) = Len(jobs[j].paths)
                /\ \A i \in 1..Len(out.written) :
                       /\ out.written[i].rows = RowsOf(jobs[j].paths[i])
                       /\ out.written[i].header = (i = 1)
                /\ out.written[1].columns
                       = content[jobs[j].paths[1]].schema

\* a csv destination written from three segments, the third one with
\* other columns than the first
C21_Witness ==
    \E j \in DOMAIN tasks :
        /\ tasks[j].st = "done"
        /\ IsCsv(j)
        /\ AllReadable(j)
        /\ Len(jobs[j].paths) = 3
        /\ Len(dest[jobs[j].output_file].written) = 3
        /\ content[jobs[j].paths[3]].schema # "trades"

\* C22: for a parquet destination whose segments can all be loaded, when
\* a segment after the first has another schema than the first, the job
\* fails on it and no destination file is left, the segments written
\* before included
C22_ParquetSchemaMismatchRemovesDestination ==
    \A j \in DOMAIN tasks :
        (/\ Ended(j) /\ ~IsCsv(j) /\ AllReadable(j)
         /\ \E i \in 2..Len(jobs[j].paths) :
                content[jobs[j].paths[i]].schema
                    # content[jobs[j].paths[1]].schema) =>
            /\ tasks[j].raised = "schema"
            /\ tasks[j].failure = "caught"
            /\ ~dest[jobs[j].output_file].exists

\* a parquet job failed on the schema of its third segment after two were
\* written
C22_Witness ==
    \E j \in DOMAIN tasks :
        /\ tasks[j].st = "done"
        /\ ~IsCsv(j)
        /\ tasks[j].raised = "schema"
        /\ tasks[j].failed_at = 3
        /\ dest[jobs[j].output_file] = Removed

\* C30: when a source path of a job does not exist as the job starts,
\* concatenate_dfs_on_disk raises without opening the destination; the
\* destination path is as it was, a file of an earlier run included
C30_MissingSourceLeavesDestinationAlone ==
    \A j \in DOMAIN tasks :
        tasks[j].failure = "AssertionError" =>
            /\ ~dest[jobs[j].output_file].touched
            /\ tasks[j].st = "done" /\ tasks[j].i = 0

\* a job raised on a missing source and the file of an earlier run is
\* still at its destination
C30_Witness ==
    \E j \in DOMAIN tasks :
        /\ tasks[j].failure = "AssertionError"
        /\ dest[jobs[j].output_file] = Stale

\* ------------------------------------------------------------------------
\* bdms/utils.py: get_file_basename and extract_dates_from_filenames
\* a Python string is modelled as the sequence of its characters
\* ------------------------------------------------------------------------
\* the characters of the strings used as symbols, market data types,
\* intervals and storage formats
Chars(s) ==
    CASE s = "BTCUSDT" ->
        <<"B", "T", "C", "U", "S", "D", "T">>
      [] s = "ETHUSDT" ->
        <<"E", "T", "H", "U", "S", "D", "T">>
      [] s = "BTCUSD_200925" ->
        <<"B", "T", "C", "U", "S", "D", "_", "2", "0", "0", "9", "2", "5">>
      [] s = "trades" ->
        <<"t", "r", "a", "d", "e", "s">>
      [] s = "klines" ->
        <<"k", "l", "i", "n", "e", "s">>
      [] s = "1d" ->
        <<"1", "d">>
      [] s = "1w" ->
        <<"1", "w">>
      [] s = "zip" ->
        <<"z", "i", "p">>
      [] s = "csv" ->
        <<"c", "s", "v">>
      [] s = "parquet" ->
        <<"p", "a", "r", "q", "u", "e", "t">>

DigitChars == <<"0", "1", "2", "3", "4", "5", "6", "7", "8", "9">>

IsDigit(ch) == \E n \in 1..10 : DigitChars[n] = ch

\* int(text) of a non-empty sequence of digits
RECURSIVE IntOf(_)
IntOf(text) ==
    IF text = <<>> THEN 0
    ELSE IntOf(SubSeq(text, 1, Len(text) - 1)) * 10
         + (CHOOSE n \in 0..9 : DigitChars[n + 1] = text[Len(text)])

\* n written with width digits, zero padded
Padded(n, width) ==
    [i \in 1..width |-> DigitChars[((n \div (10 ^ (width - i))) % 10) + 1]]

\* str(date): YYYY-MM-DD
DateStr(d) ==
    Padded(Year(d), 4) \o <<"-">> \o Padded(Month(d), 2) \o <<"-">>
    \o Padded(Day(d), 2)

\* text.split(sep) for a separator of one character
RECURSIVE SplitAt(_, _)
SplitAt(text, sep) ==
    IF \A i \in 1..Len(text) : text[i] # sep
    THEN <<text>>
    ELSE LET k == CHOOSE i \in 1..Len(text) :
                     /\ text[i] = sep
                     /\ \A j \in 1..(i - 1) : text[j] # sep
         IN  <<SubSeq(text, 1, k - 1)>>
             \o SplitAt(SubSeq(text, k + 1, Len(text)), sep)

\* text.find(sub): the least index, counted from 0, where sub starts in
\* text, or -1
Find(text, sub) ==
    LET At(i) == /\ i + Len(sub) <= Len(text)
                 /\ SubSeq(text, i + 1, i + Len(sub)) = sub
        hits == {i \in 0..Len(text) : At(i)}
    IN  IF hits = {} THEN -1
        ELSE CHOOSE i \in hits : \A j \in hits : i <= j

\* text[k:], a negative k counting from the end
SliceFrom(text, k) ==
    LET from == IF k >= 0 THEN k
                ELSE IF Len(text) + k >= 0 THEN Len(text) + k ELSE 0
    IN  SubSeq(text, from + 1, Len(text))

\* datetime.strptime(text, "%Y-%m-%d").date(): four digits, a month of one
\* or two digits, a day of one or two digits, separated by hyphens and
\* nothing else, naming a day of the calendar; ValueError otherwise
strptime(text) ==
    LET parts == SplitAt(text, "-")
        AllDigits(t) == \A i \in 1..Len(t) : IsDigit(t[i])
        shaped == /\ Len(parts) = 3
                  /\ Len(parts[1]) = 4
                  /\ Len(parts[2]) \in {1, 2}
                  /\ Len(parts[3]) \in {1, 2}
                  /\ \A i \in 1..3 : AllDigits(parts[i])
    IN  IF ~shaped THEN Raised
        ELSE LET y == IntOf(parts[1])
                 m == IntOf(parts[2])
                 d == IntOf(parts[3])
             IN  IF /\ y >= 1
                    /\ m \in 1..12
                    /\ d >= 1
                    /\ d <= DaysInMonth(y, m)
                 THEN Returned(<<y, m, d>>)
                 ELSE Raised

\* get_file_basename (utils.py:98-104) for a date given as str(date)
get_file_basename(symbol, market_data_type, date, time_period, interval) ==
    LET text == IF time_period = "monthly"
                THEN SubSeq(date, 1, Len(date) - 3)
                ELSE date
    IN  IF interval # "None"
        THEN Chars(symbol) \o <<"-">> \o Chars(interval) \o <<"-">> \o text
        ELSE Chars(symbol) \o <<"-">> \o Chars(market_data_type) \o <<"-">>
             \o text

\* the date extract_dates_from_filenames reads in one file name
\* (utils.py:272-280)
ExtractDate(f) ==
    LET parts == SplitAt(f, ".")
        c == Flatten(SubSeq(parts, 1, Len(parts) - 1))
        date == SliceFrom(c, Find(c, <<"2", "0">>))
        text == IF Len(date) = 7 THEN date \o <<"-", "0", "1">> ELSE date
    IN  strptime(text)

\* extract_dates_from_filenames: the list of the dates, or the ValueError
\* of the first name that does not read as a date
extract_dates_from_filenames(filenames) ==
    IF \E i \in DOMAIN filenames : ExtractDate(filenames[i]) = Raised
    THEN Raised
    ELSE Returned([i \in DOMAIN filenames |-> ExtractDate(filenames[i]).val])

\* ------------------------------------------------------------------------
\* Specification SpecNames: a segment file is named as populate_database
\* names it, or some other file is found in a segment directory, and
\* extract_dates_from_filenames is applied to the name
\* ------------------------------------------------------------------------
NameSymbols == {"BTCUSDT", "ETHUSDT", "BTCUSD_200925"}

\* (market data type, interval)
NameTypes == {<<"trades", "None">>, <<"klines", "1d">>, <<"klines", "1w">>}

NameDates ==
    {<<2024, 12, 1>>, <<2020, 9, 1>>, <<2024, 2, 29>>, <<2019, 12, 20>>}

StorageFormats == {"zip", "csv", "parquet"}

\* the arguments for which populate_database names a file: a monthly date
\* is the first day of its month, an interval is one of the time period
NameArgs ==
    {a \in [symbol : NameSymbols, type : NameTypes, date : NameDates,
            time_period : {"monthly", "daily"},
            storage_format : StorageFormats] :
        /\ a.time_period = "monthly" => Day(a.date) = 1
        /\ a.type[2] # "None" => a.type[2] \in INTERVALS_MAP(a.time_period)}

\* names of files that are not segments
OtherNames ==
    {<<"B", "T", "C", "U", "S", "D", "T", "-", "t", "r", "a", "d", "e",
       "s", "-", "2", "0", "2", "4", "-", "1", "2", ".", "z", "i", "p",
       ".", "C", "H", "E", "C", "K", "S", "U", "M">>,
     <<"n", "o", "t", "e", "s", ".", "t", "x", "t">>}

InitNames ==
    /\ pc = "names"
    /\ start_date = <<1970, 1, 1>>
    /\ end_date = <<1970, 1, 1>>
    /\ SplitIdle
    /\ IsectIdle
    /\ CheckIdle
    /\ name_args \in NameArgs
    /\ filename = <<>>
    /\ extracted = NotCalled
    /\ PopIdle
    /\ BuildIdle
    /\ ExecIdle

nameFrame == <<start_date, end_date, splitVars, isectVars, checkVars,
               popVars, buildVars, execVars>>

\* the file is named: basename.storage_format (populate.py:242-247)
NameFile ==
    /\ pc = "names"
    /\ filename' =
           get_file_basename(name_args.symbol, name_args.type[1],
                             DateStr(name_args.date), name_args.time_period,
                             name_args.type[2])
           \o <<".">> \o Chars(name_args.storage_format)
    /\ pc' = "named"
    /\ UNCHANGED <<name_args, extracted, nameFrame>>

\* the listing holds a file that is not a segment (merge.py:189-190)
FindOtherFile ==
    /\ pc = "names"
    /\ filename' \in OtherNames
    /\ pc' = "other"
    /\ UNCHANGED <<name_args, extracted, nameFrame>>

\* extract_dates_from_filenames is applied to the listing of the one name
ExtractDates ==
    /\ pc \in {"named", "other"}
    /\ extracted = NotCalled
    /\ extracted' = extract_dates_from_filenames(<<filename>>)
    /\ UNCHANGED <<pc, name_args, filename, nameFrame>>

NextNames ==
    \/ NameFile
    \/ FindOtherFile
    \/ ExtractDates

SpecNames == InitNames /\ [][NextNames]_vars

\* C26: extract_dates_from_filenames applied to the name that
\* get_file_basename and the storage format give a segment returns the date
\* of the segment
C26_NameRoundTrip ==
    (pc = "named" /\ extracted # NotCalled) =>
        extracted = Returned(<<name_args.date>>)

\* ------------------------------------------------------------------------
\* bdms/populate.py: populate_database, the loop over the combinations of
\* trading type and market data type up to the dates of each combination
\* ------------------------------------------------------------------------
\* enums.py: START_DATE_MAP[trading_type][market_data_type], parsed
START_DATE_MAP(trading_type, market_data_type) ==
    IF trading_type = "spot" THEN <<2017, 8, 15>>
    ELSE IF market_data_type = "bookDepth" THEN <<2023, 1, 1>>
    ELSE IF market_data_type = "metrics" THEN <<2021, 12, 1>>
    ELSE IF /\ trading_type = "cm"
            /\ market_data_type \in {"klines", "trades", "aggTrades"}
    THEN <<2020, 8, 1>>
    ELSE <<2020, 1, 1>>

\* enums.py: TYPES_MAP[trading_type][time_period]
TYPES_MAP(trading_type, time_period) ==
    IF trading_type = "spot" THEN SPOT_TYPES
    ELSE IF time_period = "daily" THEN DAILY_FUTURES_TYPES
    ELSE MONTHLY_FUTURES_TYPES

\* the value of start_date after the check of one combination
\* (populate.py:177-193): start_date is the variable of the call, which
\* the combinations before this one may have assigned
CheckedStart(provided, start, trading_type, market_data_type) ==
    LET earliest == START_DATE_MAP(trading_type, market_data_type)
    IN  IF provided
        THEN (IF DateLT(start, earliest) THEN earliest ELSE start)
        ELSE earliest

\* the RuntimeWarning of the check of one combination (populate.py:185-190)
StartWarnings(provided, start, trading_type, market_data_type) ==
    IF provided
       /\ DateLT(start, START_DATE_MAP(trading_type, market_data_type))
    THEN <<[category |-> "RuntimeWarning", kind |-> "only available from",
            key |-> <<trading_type, market_data_type>>,
            date |-> START_DATE_MAP(trading_type, market_data_type)]>>
    ELSE <<>>

\* the date lists of one combination (populate.py:195-206)
DateRanges(trading_type, market_data_type, start, end) ==
    LET has_daily == market_data_type \in TYPES_MAP(trading_type, "daily")
        has_monthly ==
            market_data_type \in TYPES_MAP(trading_type, "monthly")
    IN  IF has_daily /\ has_monthly
        THEN split_date_range(start, end)
        ELSE IF DateLT(end, start) /\ (has_daily \/ has_monthly)
        THEN Raised
        ELSE IF has_daily
        THEN Returned([monthly |-> <<>>,
                       daily |-> generate_daily_date_range(
                                     start, end, FALSE)])
        ELSE IF has_monthly
        THEN Returned([monthly |->
                           generate_monthly_date_range(start, end, FALSE),
                       daily |-> <<>>])
        ELSE Returned([monthly |-> <<>>, daily |-> <<>>])

\* ------------------------------------------------------------------------
\* Specification SpecPopulate: populate_database is called for several
\* trading types and market data types, with or without a start date
\* ------------------------------------------------------------------------
\* start_date = None
NoStart == <<>>

PopulateStarts ==
    {NoStart, <<2019, 1, 1>>, <<2020, 3, 10>>, <<2022, 12, 20>>}

PopulateEnd == <<2023, 1, 5>>

PopulateTradingTypes == {<<"spot", "um">>, <<"um", "cm">>, <<"cm">>}

PopulateDataTypes ==
    {<<"trades">>, <<"trades", "bookDepth">>,
     <<"bookDepth", "fundingRate", "trades">>}

InitPopulate ==
    /\ pc = "populate_database"
    /\ populate_args \in [trading_types : PopulateTradingTypes,
                          market_data_types : PopulateDataTypes,
                          start_date : PopulateStarts]
    /\ start_date = populate_args.start_date
    /\ end_date = PopulateEnd
    /\ start_date_provided = FALSE
    /\ populated = <<>>
    /\ SplitIdle
    /\ IsectIdle
    /\ CheckIdle
    /\ NameIdle
    /\ BuildIdle
    /\ ExecIdle

populateFrame == <<splitVars, isectVars, checkVars, nameVars, fs,
                   check_continuous, jobs, dirs_made, keylog, execVars>>

\* the statements before the loop (populate.py:164-172)
StartPopulate ==
    /\ pc = "populate_database"
    /\ start_date_provided' = (start_date # NoStart)
    /\ combinations' \in
           get_valid_combinations(populate_args.trading_types,
                                  populate_args.market_data_types)
    /\ idx' = 1
    /\ pc' = "combinations"
    /\ UNCHANGED <<start_date, end_date, populate_args, populated, warnings,
                   populateFrame>>

\* one iteration of the loop over the combinations, up to its date lists
\* (populate.py:174-206)
PopulateCombination ==
    /\ pc = "combinations"
    /\ idx <= Len(combinations)
    /\ LET trading_type == combinations[idx][1]
           market_data_type == combinations[idx][2]
           start == CheckedStart(start_date_provided, start_date,
                                 trading_type, market_data_type)
           ranges == DateRanges(trading_type, market_data_type, start,
                                end_date)
       IN  /\ start_date' = start
           /\ warnings' = warnings
                  \o StartWarnings(start_date_provided, start_date,
                                   trading_type, market_data_type)
           /\ IF ranges = Raised
              THEN /\ pc' = "ValueError"
                   /\ UNCHANGED <<idx, populated>>
              ELSE /\ pc' = pc
                   /\ idx' = idx + 1
                   /\ populated' = Append(populated,
                          [trading_type |-> trading_type,
                           market_data_type |-> market_data_type,
                           start_date |-> start,
                           monthly_dates |-> ranges.val.monthly,
                           daily_dates |-> ranges.val.daily])
    /\ UNCHANGED <<end_date, populate_args, start_date_provided,
                   combinations, populateFrame>>

\* the loop over the combinations is over
EndCombinations ==
    /\ pc = "combinations"
    /\ idx > Len(combinations)
    /\ pc' = "download"
    /\ UNCHANGED <<start_date, end_date, popVars, combinations, idx,
                   warnings, populateFrame>>

NextPopulate ==
    \/ StartPopulate
    \/ PopulateCombination
    \/ EndCombinations

SpecPopulate == InitPopulate /\ [][NextPopulate]_vars

\* C28: the start date used for a combination is the later of the start
\* date the caller gave and the first date the combination is available
\* from, whatever combinations were processed before it
LaterOf(d1, d2) == IF DateLT(d1, d2) THEN d2 ELSE d1

ExpectedStart(e) ==
    IF populate_args.start_date = NoStart
    THEN START_DATE_MAP(e.trading_type, e.market_data_type)
    ELSE LaterOf(populate_args.start_date,
                 START_DATE_MAP(e.trading_type, e.market_data_type))

C28_EffectiveStartPerCombination ==
    \A i \in DOMAIN populated :
        populated[i].start_date = ExpectedStart(populated[i])

====
